---- MODULE Spec2Model ----
(***************************************************************************)
(* The freedomadnetwork bidder adapter (modules/fanAdapter.js): the        *)
(* handlers of its operation table (isBidRequestValid, buildRequests,      *)
(* interpretResponse, onBidWon, getUserSyncs) as actions over the host's   *)
(* global configuration, the batch of outbound requests in flight and the  *)
(* observation of the most recent handler call.                            *)
(***************************************************************************)
EXTENDS Integers, Sequences, FiniteSets, TLC

VARIABLES
    config,     \* the host's global configuration (config.getConfig reads it)
    requests,   \* the batch of outbound requests the last buildRequests returned
    last        \* the most recent handler call: op, arg, ret, threw, net

vars == <<config, requests, last>>

(***************************************************************************)
(* Bounds of the model.                                                    *)
(***************************************************************************)
MaxBids == 2        \* bid requests in one buildRequests call
MaxEntries == 2     \* entries in one server response body
MaxTrackers == 2    \* trackers carried by one winning bid

(***************************************************************************)
(* JavaScript values.  A value is a record with one field naming its type. *)
(* An object is a function from its own property names to values: a        *)
(* property that is absent is not in the function's DOMAIN, a property     *)
(* that is present with the value undefined is.                            *)
(***************************************************************************)
Undef == [undef |-> TRUE]
Null == [null |-> TRUE]
Str(s) == [str |-> s]
Num(n) == [num |-> n]
Bool(b) == [bool |-> b]
Obj(f) == [obj |-> f]
Arr(s) == [arr |-> s]

NoProps == [k \in {} |-> Undef]

IsUndef(v) == DOMAIN v = {"undef"}
IsNull(v) == DOMAIN v = {"null"}
IsStr(v) == DOMAIN v = {"str"}
IsNum(v) == DOMAIN v = {"num"}
IsBool(v) == DOMAIN v = {"bool"}
IsObj(v) == DOMAIN v = {"obj"}
IsArr(v) == DOMAIN v = {"arr"}
Nullish(v) == IsUndef(v) \/ IsNull(v)

\* ToBoolean: undefined, null, false, 0 and "" are falsy, all else is truthy.
Truthy(v) ==
    CASE IsUndef(v) -> FALSE
      [] IsNull(v) -> FALSE
      [] IsBool(v) -> v.bool
      [] IsNum(v) -> v.num # 0
      [] IsStr(v) -> v.str # ""
      [] OTHER -> TRUE

\* a || b
Or(a, b) == IF Truthy(a) THEN a ELSE b

\* v[k] for a v that is neither undefined nor null (reading a property of
\* those throws a TypeError; the callers decide that case before reading).
Get(v, k) == IF IsObj(v) /\ k \in DOMAIN v.obj THEN v.obj[k] ELSE Undef

\* o[k] = x on an object o
Put(o, k, x) ==
    Obj([j \in (DOMAIN o.obj) \cup {k} |-> IF j = k THEN x ELSE o.obj[j]])

\* String(v) as the + operator applies it to a string's right operand
ToStr(v) ==
    CASE IsStr(v) -> v.str
      [] IsUndef(v) -> "undefined"
      [] IsNull(v) -> "null"
      [] IsBool(v) -> IF v.bool THEN "true" ELSE "false"
      [] OTHER -> "[object]"

\* v == 0 (abstract equality with the number 0): a number is compared as it
\* is, a boolean and a string are converted to a number first ("" and "0"
\* are the numeric strings of the model that convert to 0), undefined and
\* null equal only each other.
LooseEqualsZero(v) ==
    CASE IsNum(v) -> v.num = 0
      [] IsBool(v) -> ~v.bool
      [] IsStr(v) -> v.str \in {"", "0"}
      [] OTHER -> FALSE

RECURSIVE deepAccess(_, _)
\* utils.deepAccess(obj, path): obj = obj ? obj[key] : undefined, key by key
deepAccess(v, path) ==
    IF path = <<>> THEN v
    ELSE deepAccess(IF Truthy(v) THEN Get(v, Head(path)) ELSE Undef, Tail(path))

(***************************************************************************)
(* JSON.  A JSON text is modelled by the document it denotes: stringify    *)
(* leaves out the properties whose value is undefined and writes an        *)
(* undefined array element as null; parse gives back JavaScript values.    *)
(***************************************************************************)
RECURSIVE JSONstringify(_)
JSONstringify(v) ==
    CASE IsStr(v) -> [jstr |-> v.str]
      [] IsNum(v) -> [jnum |-> v.num]
      [] IsBool(v) -> [jbool |-> v.bool]
      [] IsObj(v) ->
            [jobj |-> [k \in {j \in DOMAIN v.obj : ~IsUndef(v.obj[j])}
                         |-> JSONstringify(v.obj[k])]]
      [] IsArr(v) ->
            [jarr |-> [i \in 1..Len(v.arr) |->
                         IF IsUndef(v.arr[i]) THEN [jnull |-> TRUE]
                         ELSE JSONstringify(v.arr[i])]]
      [] OTHER -> [jnull |-> TRUE]

RECURSIVE JSONparse(_)
JSONparse(j) ==
    CASE DOMAIN j = {"jstr"} -> Str(j.jstr)
      [] DOMAIN j = {"jnum"} -> Num(j.jnum)
      [] DOMAIN j = {"jbool"} -> Bool(j.jbool)
      [] DOMAIN j = {"jobj"} -> Obj([k \in DOMAIN j.jobj |-> JSONparse(j.jobj[k])])
      [] DOMAIN j = {"jarr"} -> Arr([i \in 1..Len(j.jarr) |-> JSONparse(j.jarr[i])])
      [] OTHER -> Null

(***************************************************************************)
(* The browser environment the adapter reads.                              *)
(***************************************************************************)
ScreenWidth == 1920
ScreenHeight == 1080
UserAgent == "Mozilla/5.0 (X11; Linux x86_64)"
\* navigator.languages, each locale as the list of its "-"-separated subtags
NavigatorLanguages == << <<"de", "DE">>, <<"en">> >>
NavigatorLanguage == <<"de", "DE">>
\* utils.getDNT()
DoNotTrack == TRUE

\* MD5(s).toString(): the hex digest, tabulated for the user agents of the model
MD5(s) ==
    CASE s = "Mozilla/5.0 (X11; Linux x86_64)" -> "4d8a039b36f12967f6c4eca01a5703d2"
      [] OTHER -> "d41d8cd98f00b204e9800998ecf8427e"

BIDDER_CODE == "freedomadnetwork"
BASE_URL == "https://srv.freedomadnetwork.com"

generateUserId == MD5(UserAgent)

getUserId(bidRequest) == generateUserId

\* lang.split('-')[0] of the first locale there is, else 'en'
getLanguage ==
    LET lang == IF NavigatorLanguages # <<>> THEN NavigatorLanguages[1]
                ELSE NavigatorLanguage
    IN IF lang # <<>> THEN lang[1] ELSE "en"

\* config.getConfig(option): the configured value itself, not a copy of it
getConfig(cfg, option) == cfg[option]

\* The descriptor getDevice returns: the configured device object, or a new
\* empty object, after the five assignments.
getDevice(cfg) ==
    LET device == Or(getConfig(cfg, "device"), Obj(NoProps))
        d1 == Put(device, "w", Or(Get(device, "w"), Num(ScreenWidth)))
        d2 == Put(d1, "h", Or(Get(d1, "h"), Num(ScreenHeight)))
        d3 == Put(d2, "ua", Or(Get(d2, "ua"), Str(UserAgent)))
        d4 == Put(d3, "language", Or(Get(d3, "language"), Str(getLanguage)))
    IN Put(d4, "dnt", IF IsNum(Get(d4, "dnt")) THEN Get(d4, "dnt")
                      ELSE Num(IF DoNotTrack THEN 1 ELSE 0))

\* The configuration after getDevice: the assignments write to the object
\* getConfig returned, which is the configured object when there is one.
configAfterGetDevice(cfg) ==
    IF Truthy(getConfig(cfg, "device"))
    THEN [cfg EXCEPT !.device = getDevice(cfg)]
    ELSE cfg

(***************************************************************************)
(* Request Builder.                                                        *)
(***************************************************************************)
\* A builder that attaches the consent fields whenever a consent object is there
gdprFields_ignoresApplies(user, bidderRequest) ==
    LET gdprConsent == deepAccess(bidderRequest, <<"gdprConsent">>)
    IN IF Truthy(gdprConsent)
       THEN Put(Put(user, "gdpr", Num(1)),
                "consent", Get(gdprConsent, "consentString"))
       ELSE user

\* payload.user after the GDPR block
gdprFields(user, bidderRequest) ==
    LET gdprConsent == deepAccess(bidderRequest, <<"gdprConsent">>)
    IN IF Truthy(gdprConsent) /\ Truthy(Get(gdprConsent, "gdprApplies"))
       THEN Put(Put(user, "gdpr", Num(1)),
                "consent", Get(gdprConsent, "consentString"))
       ELSE user

\* A builder that nests the US-privacy block inside the GDPR block
uspFields_insideGdprBlock(user, bidderRequest) ==
    LET uspConsent == deepAccess(bidderRequest, <<"uspConsent">>)
    IN IF Truthy(uspConsent) /\ Truthy(Get(user, "gdpr"))
       THEN Put(user, "usp", uspConsent) ELSE user

\* payload.user after the US-privacy block
uspFields(user, bidderRequest) ==
    LET uspConsent == deepAccess(bidderRequest, <<"uspConsent">>)
    IN IF Truthy(uspConsent) THEN Put(user, "usp", uspConsent) ELSE user

\* The payload object as it is when it is serialised
buildPayload(bid, bidderRequest, cfg) ==
    LET user == Obj([coppa |-> Num(IF Truthy(getConfig(cfg, "coppa")) THEN 1 ELSE 0)])
    IN Obj([id |-> Get(bid, "bidId"),
            tmax |-> Get(bidderRequest, "timeout"),
            placements |-> Arr(<<Get(Get(bid, "params"), "placementId")>>),
            test |-> Num(IF Truthy(getConfig(cfg, "debug")) THEN 1 ELSE 0),
            device |-> getDevice(cfg),
            at |-> Num(2),
            user |-> uspFields(gdprFields(user, bidderRequest), bidderRequest)])

\* The request descriptor buildBidRequest returns
buildBidRequest(bid, bidderRequest, cfg) ==
    LET userId == getUserId(bid)
    IN [method |-> "POST",
        url |-> BASE_URL \o "/pb/req",
        data |-> JSONstringify(buildPayload(bid, bidderRequest, cfg)),
        options |-> [contentType |-> "application/json",
                     withCredentials |-> FALSE,
                     customHeaders |-> [AcceptLanguage |-> "en;q=10",
                                        Authorization |-> "Bearer " \o userId]],
        originalBidRequest |-> bid]

RECURSIVE configAfterCalls(_, _)
\* The configuration after n calls of buildBidRequest, each of which calls
\* getDevice once
configAfterCalls(cfg, n) ==
    IF n = 0 THEN cfg ELSE configAfterGetDevice(configAfterCalls(cfg, n - 1))

\* A map whose callback builds every request from the first bid
buildRequests_alwaysFirstBid(validBidRequests, bidderRequest, cfg) ==
    [i \in 1..Len(validBidRequests) |->
        buildBidRequest(validBidRequests[1], bidderRequest, configAfterCalls(cfg, i - 1))]

\* validBidRequests.map(bid => buildBidRequest(bid, bidderRequest)): the
\* calls run one after the other, the i-th on the configuration the i-1
\* calls before it left.
buildRequests(validBidRequests, bidderRequest, cfg) ==
    [i \in 1..Len(validBidRequests) |->
        buildBidRequest(validBidRequests[i], bidderRequest, configAfterCalls(cfg, i - 1))]

(***************************************************************************)
(* Validity check.                                                         *)
(***************************************************************************)
\* A validity check without the banner test
isBidRequestValid_noBannerCheck(bid) ==
    IF ~Truthy(bid) THEN FALSE
    ELSE IF ~Truthy(Get(bid, "params")) THEN FALSE
    ELSE IF ~Truthy(Get(Get(bid, "params"), "placementId")) THEN FALSE
    ELSE TRUE

isBidRequestValid(bid) ==
    IF ~Truthy(bid) THEN FALSE
    ELSE IF ~Truthy(Get(bid, "params")) THEN FALSE
    ELSE IF ~Truthy(Get(Get(bid, "params"), "placementId")) THEN FALSE
    ELSE IF IsUndef(deepAccess(bid, <<"mediaTypes", "banner">>)) THEN FALSE
    ELSE TRUE

(***************************************************************************)
(* Response Interpreter.                                                   *)
(***************************************************************************)
\* A mapping that takes requestId from the server's own bid id
bidResponseOf_requestIdFromBidid(response) ==
    Obj([requestId |-> Get(response, "bidid"),
         bidid |-> Get(response, "bidid"),
         impid |-> Get(response, "impid"),
         userId |-> Get(response, "userId"),
         cpm |-> Get(response, "cpm"),
         currency |-> Get(response, "currency"),
         width |-> Get(response, "width"),
         height |-> Get(response, "height"),
         ad |-> Get(response, "payload"),
         ttl |-> Get(response, "ttl"),
         creativeId |-> Get(response, "crid"),
         netRevenue |-> Get(response, "netRevenue"),
         trackers |-> Get(response, "trackers"),
         meta |-> Obj([mediaType |-> Get(response, "mediaType"),
                       advertiserDomains |-> Get(response, "domains")])])

\* A mapping that swaps width and height
bidResponseOf_sizeSwapped(response) ==
    Obj([requestId |-> Get(response, "id"),
         bidid |-> Get(response, "bidid"),
         impid |-> Get(response, "impid"),
         userId |-> Get(response, "userId"),
         cpm |-> Get(response, "cpm"),
         currency |-> Get(response, "currency"),
         width |-> Get(response, "height"),
         height |-> Get(response, "width"),
         ad |-> Get(response, "payload"),
         ttl |-> Get(response, "ttl"),
         creativeId |-> Get(response, "crid"),
         netRevenue |-> Get(response, "netRevenue"),
         trackers |-> Get(response, "trackers"),
         meta |-> Obj([mediaType |-> Get(response, "mediaType"),
                       advertiserDomains |-> Get(response, "domains")])])

\* The bidResponse object built from one entry of the body
bidResponseOf(response) ==
    Obj([requestId |-> Get(response, "id"),
         bidid |-> Get(response, "bidid"),
         impid |-> Get(response, "impid"),
         userId |-> Get(response, "userId"),
         cpm |-> Get(response, "cpm"),
         currency |-> Get(response, "currency"),
         width |-> Get(response, "width"),
         height |-> Get(response, "height"),
         ad |-> Get(response, "payload"),
         ttl |-> Get(response, "ttl"),
         creativeId |-> Get(response, "crid"),
         netRevenue |-> Get(response, "netRevenue"),
         trackers |-> Get(response, "trackers"),
         meta |-> Obj([mediaType |-> Get(response, "mediaType"),
                       advertiserDomains |-> Get(response, "domains")])])

\* serverBody.forEach(...): the bids pushed, in the order of the entries
mapEntries(entries) == [i \in 1..Len(entries) |-> bidResponseOf(entries[i])]

\* The outcome of interpretResponse: the list returned, or a TypeError
\* thrown (forEach read of a body that is no array, or a property read of an
\* entry that is null or undefined).
interpretResponse(serverResponse, bidRequest) ==
    LET serverBody == Get(serverResponse, "body")
    IN IF ~Truthy(serverBody) THEN [threw |-> FALSE, ret |-> Arr(<<>>)]
       ELSE IF ~IsArr(serverBody) THEN [threw |-> TRUE, ret |-> Undef]
       ELSE IF \E i \in 1..Len(serverBody.arr) : Nullish(serverBody.arr[i])
            THEN [threw |-> TRUE, ret |-> Undef]
       ELSE [threw |-> FALSE, ret |-> Arr(mapEntries(serverBody.arr))]

(***************************************************************************)
(* Win notifier.                                                           *)
(***************************************************************************)
\* A test that lets every tracker through
isImpressionTracker_anyType(tracker) == TRUE

\* bid.trackers[i].type == 0
isImpressionTracker(tracker) == LooseEqualsZero(Get(tracker, "type"))

\* utils.triggerPixel(url)
triggerPixel(url) == [kind |-> "pixel", url |-> url]

\* ajax(url, null, data, options)
ajax(url, callback, data, options) ==
    [kind |-> "ajax", url |-> url, data |-> data, options |-> options]

RECURSIVE fireTrackers(_, _)
\* The for loop over bid.trackers from index i: the pixels fired in order,
\* until the end or a tracker that is null or undefined (a TypeError).
fireTrackers(trackers, i) ==
    IF i > Len(trackers) THEN [threw |-> FALSE, net |-> <<>>]
    ELSE IF Nullish(trackers[i]) THEN [threw |-> TRUE, net |-> <<>>]
    ELSE LET rest == fireTrackers(trackers, i + 1)
             here == IF isImpressionTracker(trackers[i])
                     THEN <<triggerPixel(Get(trackers[i], "url"))>>
                     ELSE <<>>
         IN [threw |-> rest.threw, net |-> here \o rest.net]

\* The notification POST of onBidWon
notifyWin(bid) ==
    LET payload == Obj([id |-> Get(bid, "bidid"),
                        impid |-> Get(bid, "impid"),
                        t |-> Get(bid, "cpm")])
    IN ajax(BASE_URL \o "/pb/imp", Null, JSONstringify(payload),
            [method |-> "POST",
             customHeaders |-> [AcceptLanguage |-> "en;q=10",
                                Authorization |-> "Bearer " \o ToStr(Get(bid, "userId"))]])

\* A notifier that fires the pixels before it posts the notification
onBidWon_pixelsFirst(bid) ==
    IF ~Truthy(bid) THEN [threw |-> FALSE, net |-> <<>>]
    ELSE LET trackers == Get(bid, "trackers")
             pixels == IF Truthy(trackers) /\ IsArr(trackers) /\ Len(trackers.arr) > 0
                       THEN fireTrackers(trackers.arr, 1)
                       ELSE [threw |-> FALSE, net |-> <<>>]
         IN [threw |-> pixels.threw, net |-> pixels.net \o <<notifyWin(bid)>>]

\* The outcome of onBidWon: the network effects issued, in order
onBidWon(bid) ==
    IF ~Truthy(bid) THEN [threw |-> FALSE, net |-> <<>>]
    ELSE LET trackers == Get(bid, "trackers")
             pixels == IF Truthy(trackers) /\ IsArr(trackers) /\ Len(trackers.arr) > 0
                       THEN fireTrackers(trackers.arr, 1)
                       ELSE [threw |-> FALSE, net |-> <<>>]
         IN [threw |-> pixels.threw, net |-> <<notifyWin(bid)>> \o pixels.net]

getUserSyncs(syncOptions, serverResponses, gdprConsent, uspConsent) == Arr(<<>>)

(***************************************************************************)
(* The inputs the host and the server hand to the adapter.                 *)
(***************************************************************************)
\* An optional property: <<>> leaves it out, <<x>> sets it to x
WithOpt(o, k, opt) == IF opt = <<>> THEN o ELSE Put(o, k, opt[1])

\* The sequences over S of length at most n
SeqsUpTo(S, n) == UNION {[1..m -> S] : m \in 0..n}

ParamsOptions(placementId) ==
    {<<>>, <<Null>>, <<Str(placementId)>>, <<Obj(NoProps)>>,
     <<Obj([placementId |-> Str("")])>>, <<Obj([placementId |-> Str(placementId)])>>}

MediaTypeOptions ==
    {<<>>, <<Null>>, <<Obj(NoProps)>>, <<Obj([native |-> Obj(NoProps)])>>,
     <<Obj([banner |-> Obj(NoProps)])>>}

MakeBid(bidId, params, mediaTypes) ==
    WithOpt(WithOpt(Obj([bidId |-> Str(bidId)]), "params", params),
            "mediaTypes", mediaTypes)

\* What the host may ask isBidRequestValid about
BidInputs ==
    {Undef, Null, Str("bid")}
    \cup {MakeBid("b1", p, m) : p \in ParamsOptions("p1"), m \in MediaTypeOptions}
    \cup {MakeBid("b2", <<Obj([placementId |-> Str("p2")])>>,
                  <<Obj([banner |-> Obj(NoProps), native |-> Obj(NoProps)])>>)}

\* The host hands buildRequests the bids isBidRequestValid accepted
ValidBidRequests == {b \in BidInputs : isBidRequestValid(b)}

GdprOptions ==
    {<<>>,
     <<Obj([gdprApplies |-> Bool(FALSE), consentString |-> Str("CONSENT")])>>,
     <<Obj([gdprApplies |-> Bool(TRUE), consentString |-> Str("CONSENT")])>>,
     <<Obj([gdprApplies |-> Bool(TRUE)])>>,
     <<Obj([consentString |-> Str("CONSENT")])>>}

UspOptions == {<<>>, <<Str("")>>, <<Str("1YNN")>>}

MakeBidderRequest(timeout, gdpr, usp) ==
    WithOpt(WithOpt(Obj([timeout |-> Num(timeout)]), "gdprConsent", gdpr),
            "uspConsent", usp)

BidderRequests ==
    {MakeBidderRequest(3000, g, u) : g \in GdprOptions, u \in UspOptions}
    \cup {MakeBidderRequest(1000, <<>>, <<>>)}

\* The auction context of the batches whose responses are interpreted
PlainBidderRequest == MakeBidderRequest(3000, <<>>, <<>>)

\* What the host may configure
DefaultConfig == [debug |-> Bool(FALSE), coppa |-> Undef, device |-> Undef]

Configs ==
    {DefaultConfig,
     [debug |-> Bool(TRUE), coppa |-> Bool(TRUE),
      device |-> Obj([ua |-> Str("CustomAgent/1.0"), dnt |-> Num(0)])]}

Tracker(type, url) == Obj([type |-> Num(type), url |-> Str(url)])

Trackers ==
    {Tracker(0, "https://t.example/imp1"), Tracker(0, "https://t.example/imp2"),
     Tracker(1, "https://t.example/click"), Obj([url |-> Str("https://t.example/untyped")])}

ServerEntry(id, bidid, cpm, domains, trackers) ==
    WithOpt(Obj([id |-> Str(id), bidid |-> Str(bidid), impid |-> Str("imp-" \o bidid),
                 userId |-> Str(generateUserId), cpm |-> Num(cpm),
                 currency |-> Str("USD"), width |-> Num(300), height |-> Num(250),
                 payload |-> Str("<div>ad</div>"), ttl |-> Num(360),
                 crid |-> Str("cr-" \o bidid), netRevenue |-> Bool(TRUE),
                 mediaType |-> Str("banner"), domains |-> Arr(domains)]),
            "trackers", trackers)

\* Well-formed entries: two that echo the ids of bid requests, one that does not
ServerEntries ==
    {ServerEntry("b1", "s1", 5, <<Str("a.example")>>,
         <<Arr(<<Tracker(0, "https://t.example/imp1"), Tracker(1, "https://t.example/click")>>)>>),
     ServerEntry("b2", "s2", 3, <<Str("b.example"), Str("c.example")>>, <<>>),
     ServerEntry("b9", "s3", 7, <<>>, <<Arr(<<>>)>>)}

\* Bodies that are absent, empty, no array, or hold a malformed entry
MalformedBodies ==
    {<<>>, <<Null>>, <<Str("")>>, <<Str("Internal Server Error")>>,
     <<Obj([error |-> Str("no fill")])>>, <<Arr(<<Null>>)>>,
     <<Arr(<<Str("junk")>>)>>, <<Arr(<<Obj([id |-> Str("b1")])>>)>>}

ServerBodies ==
    MalformedBodies \cup {<<Arr(s)>> : s \in SeqsUpTo(ServerEntries, MaxEntries)}

ServerResponses == {WithOpt(Obj([headers |-> Obj(NoProps)]), "body", b) : b \in ServerBodies}

\* The bids the host may declare winners: interpreted bids with any trackers
WinningBids ==
    {bidResponseOf(ServerEntry("b1", "s1", 5, <<Str("a.example")>>, t)) :
        t \in {<<>>} \cup {<<Arr(s)>> : s \in SeqsUpTo(Trackers, MaxTrackers)}}

(***************************************************************************)
(* The state machine: one action per handler call.                         *)
(***************************************************************************)
Call(op, arg, ret, threw, net) ==
    [op |-> op, arg |-> arg, ret |-> ret, threw |-> threw, net |-> net]

Init ==
    /\ config = DefaultConfig
    /\ requests = <<>>
    /\ last = Call("none", Undef, Undef, FALSE, <<>>)

\* The host's setConfig
SetConfig(c) ==
    /\ config' = c
    /\ last' = Call("setConfig", Undef, Undef, FALSE, <<>>)
    /\ UNCHANGED requests

IsBidRequestValid(bid) ==
    /\ last' = Call("isBidRequestValid", bid, Bool(isBidRequestValid(bid)), FALSE, <<>>)
    /\ UNCHANGED <<config, requests>>

BuildRequests(validBidRequests, bidderRequest) ==
    /\ requests' = buildRequests(validBidRequests, bidderRequest, config)
    /\ config' = configAfterCalls(config, Len(validBidRequests))
    /\ last' = Call("buildRequests",
                       [validBidRequests |-> validBidRequests,
                        bidderRequest |-> bidderRequest],
                       Undef, FALSE, <<>>)

\* The host calls interpretResponse with the response to a request in flight
InterpretResponse(serverResponse, i) ==
    LET out == interpretResponse(serverResponse, requests[i])
    IN /\ last' = Call("interpretResponse", serverResponse, out.ret, out.threw, <<>>)
       /\ UNCHANGED <<config, requests>>

OnBidWon(bid) ==
    LET out == onBidWon(bid)
    IN /\ last' = Call("onBidWon", bid, Undef, out.threw, out.net)
       /\ UNCHANGED <<config, requests>>

GetUserSyncs ==
    /\ last' = Call("getUserSyncs", Undef, getUserSyncs(Undef, Undef, Undef, Undef),
                    FALSE, <<>>)
    /\ UNCHANGED <<config, requests>>

\* The lists of valid bid requests the host may hand to buildRequests
BidLists == SeqsUpTo(ValidBidRequests, MaxBids)

WinInputs == {Undef, Null} \cup WinningBids

Configure == \E c \in Configs : SetConfig(c)

Validate == \E bid \in BidInputs : IsBidRequestValid(bid)

Build ==
    \E bids \in BidLists, br \in BidderRequests : BuildRequests(bids, br)

BuildPlain ==
    \E bids \in BidLists : BuildRequests(bids, PlainBidderRequest)

Respond ==
    \E r \in ServerResponses, i \in 1..Len(requests) : InterpretResponse(r, i)

Win == \E bid \in WinInputs : OnBidWon(bid)

Next == Configure \/ Validate \/ Build \/ Respond \/ Win \/ GetUserSyncs

\* The whole adapter
Spec == Init /\ [][Next]_vars

\* Request side: configuration and request building
NextRequests == Configure \/ Build

SpecRequests == Init /\ [][NextRequests]_vars

\* Response side: batches of a plain auction context and their responses
NextResponses == BuildPlain \/ Respond

SpecResponses == Init /\ [][NextResponses]_vars

\* The handlers that neither read nor write the batch
NextHost == Configure \/ Validate \/ Win \/ GetUserSyncs

SpecHost == Init /\ [][NextHost]_vars

(***************************************************************************)
(* Properties.                                                             *)
(***************************************************************************)
Built == last.op = "buildRequests"
Validated == last.op = "isBidRequestValid"
Interpreted == last.op = "interpretResponse"
Won == last.op = "onBidWon"

\* The parsed body of the i-th outbound request of the batch
Payload(i) == JSONparse(requests[i].data)

HasProp(v, k) == IsObj(v) /\ k \in DOMAIN v.obj

\* C1: buildRequests returns one request per bid request, in the same
\* order: the i-th is a POST to <base>/pb/req whose originalBidRequest is the
\* i-th bid request and whose parsed body has that bid's id, the auction
\* timeout as tmax, at = 2 and placements = [that bid's placementId].
C1_OneRequestPerBidInOrder ==
    Built =>
        LET bids == last.arg.validBidRequests
            bidderRequest == last.arg.bidderRequest
        IN /\ Len(requests) = Len(bids)
           /\ \A i \in 1..Len(bids) :
                /\ requests[i].method = "POST"
                /\ requests[i].url = "https://srv.freedomadnetwork.com/pb/req"
                /\ requests[i].originalBidRequest = bids[i]
                /\ Get(Payload(i), "id") = Get(bids[i], "bidId")
                /\ Get(Payload(i), "tmax") = Get(bidderRequest, "timeout")
                /\ Get(Payload(i), "at") = Num(2)
                /\ Get(Payload(i), "placements")
                      = Arr(<<Get(Get(bids[i], "params"), "placementId")>>)

\* A batch of two requests built from two different bid requests
C1_Witness ==
    /\ Built
    /\ Len(requests) = 2
    /\ Get(Payload(1), "id") = Str("b1")
    /\ Get(Payload(2), "id") = Str("b2")
    /\ Get(Payload(2), "placements") = Arr(<<Str("p2")>>)

CarriesPlacementId(bid) ==
    /\ HasProp(bid, "params")
    /\ HasProp(bid.obj.params, "placementId")
    /\ Truthy(bid.obj.params.obj.placementId)

DeclaresBanner(bid) ==
    /\ HasProp(bid, "mediaTypes")
    /\ HasProp(bid.obj.mediaTypes, "banner")

\* C2: isBidRequestValid returns true exactly when the bid carries
\* params.placementId and its media types include banner; for every other
\* input it returns false, and it never throws.
C2_ValidIffPlacementAndBanner ==
    Validated =>
        /\ ~last.threw
        /\ last.ret = Bool(CarriesPlacementId(last.arg) /\ DeclaresBanner(last.arg))

\* A bid accepted, with a placement id and banner and native media types
C2_Witness ==
    /\ Validated
    /\ last.ret = Bool(TRUE)
    /\ HasProp(Get(last.arg, "mediaTypes"), "native")

ResponseBody == Get(last.arg, "body")

WellFormedBody ==
    /\ IsArr(ResponseBody)
    /\ \A i \in 1..Len(ResponseBody.arr) : ResponseBody.arr[i] \in ServerEntries

\* bid is the field-for-field rename of entry
IsRenameOf(bid, entry) ==
    /\ IsObj(bid)
    /\ DOMAIN bid.obj = {"requestId", "bidid", "impid", "userId", "cpm", "currency",
                         "width", "height", "ad", "ttl", "creativeId", "netRevenue",
                         "trackers", "meta"}
    /\ bid.obj.requestId = Get(entry, "id")
    /\ bid.obj.bidid = Get(entry, "bidid")
    /\ bid.obj.impid = Get(entry, "impid")
    /\ bid.obj.userId = Get(entry, "userId")
    /\ bid.obj.cpm = Get(entry, "cpm")
    /\ bid.obj.currency = Get(entry, "currency")
    /\ bid.obj.width = Get(entry, "width")
    /\ bid.obj.height = Get(entry, "height")
    /\ bid.obj.ad = Get(entry, "payload")
    /\ bid.obj.ttl = Get(entry, "ttl")
    /\ bid.obj.creativeId = Get(entry, "crid")
    /\ bid.obj.netRevenue = Get(entry, "netRevenue")
    /\ bid.obj.trackers = Get(entry, "trackers")
    /\ IsObj(bid.obj.meta)
    /\ DOMAIN bid.obj.meta.obj = {"mediaType", "advertiserDomains"}
    /\ bid.obj.meta.obj.mediaType = Get(entry, "mediaType")
    /\ bid.obj.meta.obj.advertiserDomains = Get(entry, "domains")

\* C3: a body of N well-formed entries is interpreted as exactly N bids in
\* the order of the entries, the i-th bid the field-for-field rename of the
\* i-th entry, with meta.advertiserDomains the entry's domain list.
C3_OneBidPerEntryInOrder ==
    (Interpreted /\ WellFormedBody) =>
        /\ ~last.threw
        /\ IsArr(last.ret)
        /\ Len(last.ret.arr) = Len(ResponseBody.arr)
        /\ \A i \in 1..Len(ResponseBody.arr) :
              IsRenameOf(last.ret.arr[i], ResponseBody.arr[i])

\* Two different entries interpreted, the second with two advertiser domains
C3_Witness ==
    /\ Interpreted /\ WellFormedBody /\ ~last.threw
    /\ Len(last.ret.arr) = 2
    /\ Get(last.ret.arr[1], "requestId") # Get(last.ret.arr[2], "requestId")
    /\ Get(Get(last.ret.arr[2], "meta"), "advertiserDomains")
          = Arr(<<Str("b.example"), Str("c.example")>>)

\* C4: a response whose body is absent, empty, no array or holds malformed
\* entries is interpreted without throwing, and as the empty list when the
\* body is absent or is no array.
C4_MalformedBodyIsZeroBids ==
    Interpreted =>
        /\ ~last.threw
        /\ (~IsArr(ResponseBody) => last.ret = Arr(<<>>))

IsPixel(e) == e.kind = "pixel"
IsAjax(e) == e.kind = "ajax"
HasTypeZero(tracker) == Get(tracker, "type") = Num(0)

UrlsOf(events) == [i \in 1..Len(events) |-> events[i].url]
TrackerUrls(trackers) == [i \in 1..Len(trackers) |-> Get(trackers[i], "url")]

\* The tracker list of the winning bid, empty when it carries none
WinTrackers ==
    IF IsArr(Get(last.arg, "trackers")) THEN Get(last.arg, "trackers").arr ELSE <<>>

\* C5: onBidWon fires one pixel for each tracker of the bid whose type code
\* is 0, in list order, and none for any other tracker.
C5_PixelsAreTheTypeZeroTrackers ==
    (Won /\ Truthy(last.arg)) =>
        /\ ~last.threw
        /\ UrlsOf(SelectSeq(last.net, IsPixel))
              = TrackerUrls(SelectSeq(WinTrackers, HasTypeZero))

\* A bid with a type-0 and a type-1 tracker: one pixel, to the type-0 URL
C5_Witness ==
    /\ Won /\ Truthy(last.arg)
    /\ WinTrackers = <<Tracker(0, "https://t.example/imp1"),
                       Tracker(1, "https://t.example/click")>>
    /\ UrlsOf(SelectSeq(last.net, IsPixel)) = <<Str("https://t.example/imp1")>>

\* C6: onBidWon of an absent bid issues nothing; of a present bid it issues
\* exactly one POST to <base>/pb/imp, before any pixel, with the body
\* {id: bid.bidid, impid: bid.impid, t: bid.cpm} and the header
\* Authorization: Bearer <bid.userId>.
C6_OneNotificationFirst ==
    Won =>
        IF ~Truthy(last.arg) THEN last.net = <<>>
        ELSE /\ Len(SelectSeq(last.net, IsAjax)) = 1
             /\ IsAjax(last.net[1])
             /\ last.net[1].url = "https://srv.freedomadnetwork.com/pb/imp"
             /\ last.net[1].options.method = "POST"
             /\ JSONparse(last.net[1].data)
                   = Obj([id |-> Get(last.arg, "bidid"),
                          impid |-> Get(last.arg, "impid"),
                          t |-> Get(last.arg, "cpm")])
             /\ last.net[1].options.customHeaders.Authorization
                   = "Bearer " \o Get(last.arg, "userId").str

\* A present bid whose notification is followed by two pixels
C6_Witness ==
    /\ Won /\ Truthy(last.arg)
    /\ Len(last.net) = 3
    /\ IsAjax(last.net[1]) /\ IsPixel(last.net[2]) /\ IsPixel(last.net[3])

AppliesGdpr(bidderRequest) ==
    /\ HasProp(bidderRequest, "gdprConsent")
    /\ Get(bidderRequest.obj.gdprConsent, "gdprApplies") = Bool(TRUE)

\* C7: the payload's user has gdpr = 1 and consent = the supplied consent
\* string when the auction context has a GDPR consent object whose
\* gdprApplies is true; otherwise it has neither field.
C7_GdprFieldsIffApplies ==
    Built =>
        \A i \in 1..Len(requests) :
            LET user == Get(Payload(i), "user")
                bidderRequest == last.arg.bidderRequest
            IN IF AppliesGdpr(bidderRequest)
               THEN /\ Get(user, "gdpr") = Num(1)
                    /\ Get(user, "consent")
                          = Get(bidderRequest.obj.gdprConsent, "consentString")
               ELSE /\ IsObj(user)
                    /\ ~HasProp(user, "gdpr")
                    /\ ~HasProp(user, "consent")

\* A request built under applicable GDPR consent carries the consent string
C7_Witness ==
    /\ Built /\ Len(requests) > 0
    /\ AppliesGdpr(last.arg.bidderRequest)
    /\ Get(Get(Payload(1), "user"), "gdpr") = Num(1)
    /\ Get(Get(Payload(1), "user"), "consent") = Str("CONSENT")

SuppliesUsp(bidderRequest) ==
    /\ HasProp(bidderRequest, "uspConsent")
    /\ IsStr(bidderRequest.obj.uspConsent)
    /\ bidderRequest.obj.uspConsent.str # ""

\* C8: the payload's user.usp is the supplied US-privacy string when a
\* non-empty one is in the auction context and is absent otherwise,
\* whatever the GDPR consent is.
C8_UspIffSupplied ==
    Built =>
        \A i \in 1..Len(requests) :
            LET user == Get(Payload(i), "user")
                bidderRequest == last.arg.bidderRequest
            IN IF SuppliesUsp(bidderRequest)
               THEN Get(user, "usp") = bidderRequest.obj.uspConsent
               ELSE IsObj(user) /\ ~HasProp(user, "usp")

\* A request that carries usp and no GDPR field
C8_Witness ==
    /\ Built /\ Len(requests) > 0
    /\ Get(Get(Payload(1), "user"), "usp") = Str("1YNN")
    /\ ~HasProp(Get(Payload(1), "user"), "gdpr")

\* C9: a buildRequests call leaves the host's global configuration (debug,
\* coppa and the device override with its w, h, ua, language and dnt) as it
\* was before the call.
C9_BuildRequestsLeavesConfigUnchanged ==
    [][last'.op = "buildRequests" => config' = config]_vars

\* The ids the batch in flight sent as its payloads' id
BatchIds == {Get(Payload(k), "id") : k \in 1..Len(requests)}

InterpretedBids == IF IsArr(last.ret) THEN last.ret.arr ELSE <<>>

\* C10 as stated: every interpreted bid's requestId is the id of a bid
\* request of the batch in flight, whatever body the server sent.
C10_RequestIdIsOfTheBatch ==
    (Interpreted /\ ~last.threw) =>
        \A i \in 1..Len(InterpretedBids) :
            Get(InterpretedBids[i], "requestId") \in BatchIds

\* C10 as amended: every interpreted bid's requestId is the id field of the
\* entry it was built from, so it is the id of a bid request of the batch
\* whenever the server echoed ids of the batch.
C10_RequestIdIsTheEntryId ==
    (Interpreted /\ ~last.threw /\ IsArr(ResponseBody)) =>
        /\ Len(InterpretedBids) = Len(ResponseBody.arr)
        /\ \A i \in 1..Len(InterpretedBids) :
              Get(InterpretedBids[i], "requestId") = Get(ResponseBody.arr[i], "id")
        /\ (\A i \in 1..Len(ResponseBody.arr) : Get(ResponseBody.arr[i], "id") \in BatchIds)
              => \A i \in 1..Len(InterpretedBids) :
                    Get(InterpretedBids[i], "requestId") \in BatchIds

\* Two bids interpreted for a batch of two requests, each echoing an id of it
C10_Witness ==
    /\ Interpreted /\ ~last.threw
    /\ Len(requests) = 2
    /\ Len(InterpretedBids) = 2
    /\ {Get(InterpretedBids[i], "requestId") : i \in 1..2} = BatchIds
    /\ BatchIds = {Str("b1"), Str("b2")}

====
